---- MODULE Spec2Model ----
(***************************************************************************)
(* Model of the webview side of tauri-plugin-windows                       *)
(* (webview-src/index.ts, windows.d.ts).                                   *)
(*                                                                         *)
(* The class Windows has seven methods; each one builds an argument record *)
(* and returns the promise of one call of the remote-invocation primitive  *)
(* invoke(cmd, args).  One instance, WindowsService, is created and frozen *)
(* when the module is loaded.  The host settles the promises.              *)
(***************************************************************************)
EXTENDS Integers, Sequences, FiniteSets, TLC

\* Number of steps the holders of the exported reference take in a behaviour:
\* operation calls and attempts to modify the object.
MaxCalls == 2

-----------------------------------------------------------------------------
(* JavaScript values, tagged by their type.                                *)

JSNull == [t |-> "null"]
JSUndefined == [t |-> "undefined"]
JSString(s) == [t |-> "string", v |-> s]
JSNumber(n) == [t |-> "number", v |-> n]
JSArray(elems) == [t |-> "array", v |-> elems]
JSObject(fields) == [t |-> "object", v |-> fields]

-----------------------------------------------------------------------------
(* windows.d.ts: the data-transfer records.                                *)

\* enum OpenContext
Cli == 0
Menu == 2

\* interface WindowOpenable
WindowOpenable(folder_uri, file_uri) ==
    [folder_uri |-> folder_uri, file_uri |-> file_uri]

\* interface OpenConfiguration
OpenConfiguration(label, uris_to_open, context, force_new_window) ==
    [label |-> label,
     url |-> JSNull,
     uris_to_open |-> uris_to_open,
     context_window_label |-> JSUndefined,
     context |-> context,
     force_new_window |-> force_new_window,
     force_new_tabbed_window |-> FALSE,
     force_reuse_window |-> FALSE,
     force_empty_window |-> FALSE,
     prefer_new_window |-> FALSE,
     initial_startup |-> FALSE,
     diff_mode |-> FALSE]

\* interface FilesToOpen
FilesToOpen(files_to_open_or_create) ==
    [files_to_open_or_create |-> files_to_open_or_create,
     files_to_diff |-> <<>>,
     files_to_wait |-> <<>>]

\* interface WindowOptions extends TauriWindowOptions
WindowOptions(label, force_new_window, window_to_use) ==
    [label |-> label,
     url |-> JSNull,
     always_on_top |-> JSNull,
     center |-> TRUE,
     decorations |-> JSNull,
     focus |-> TRUE,
     fullscreen |-> JSNull,
     inner_size |-> JSNull,
     max_inner_size |-> JSNull,
     maximized |-> JSNull,
     min_inner_size |-> JSNull,
     position |-> JSNull,
     resizable |-> JSNull,
     skip_taskbar |-> JSNull,
     theme |-> JSNull,
     title |-> JSNull,
     transparent |-> JSNull,
     visible |-> JSNull,
     initial_startup |-> FALSE,
     force_new_window |-> force_new_window,
     force_new_tabbed_window |-> FALSE,
     force_reuse_window |-> FALSE,
     force_empty_window |-> TRUE,
     empty_window_backup_info |-> JSNull,
     files_to_open |-> FilesToOpen(<<>>),
     window_to_use |-> window_to_use,
     folder |-> JSNull]

-----------------------------------------------------------------------------
(* The inputs the callers draw from.                                       *)

WindowLabels == {"main", "editor-1"}

OpenConfigurations ==
    { OpenConfiguration(JSString("main"), JSNull, Cli, TRUE),
      OpenConfiguration(JSNull,
                        <<WindowOpenable(JSString("file:///w"), JSNull)>>,
                        Menu, FALSE) }

\* Each options record disagrees with each configuration on label or on
\* force_new_window, fields that both interfaces declare.
WindowOptionsValues ==
    { WindowOptions(JSString("editor-1"), FALSE, JSNull),
      WindowOptions(JSUndefined, TRUE, JSString("main")) }

\* The (channel, payload) pairs the senders draw from.
Messages ==
    { <<"menu", JSNull>>,
      <<"menu", JSArray(<<JSNumber(1), JSNull, JSArray(<<>>)>>)>>,
      <<"vscode:openFiles", JSNull>>,
      <<"vscode:openFiles",
        JSObject([files |-> JSArray(<<JSString("a.txt")>>),
                  meta |-> JSObject([line |-> JSNumber(3)])])>> }

Channels == { m[1] : m \in Messages }

\* payload: any
Payloads == { m[2] : m \in Messages }

ErrorMessages == {"no such window"}

-----------------------------------------------------------------------------
(* State.                                                                  *)

VARIABLES
    WindowsService,  \* the exported object: its own properties and extensibility
    calls,           \* what the holders of the reference did so far, in order:
                     \* operation calls (with the value each returned) and
                     \* attempts to modify the object (with their outcome)
    invoked,         \* the calls of invoke(cmd, args) made so far
    promises         \* the promise invoke returned for each of them

vars == <<WindowsService, calls, invoked, promises>>

\* class Windows: the methods live on the prototype.
Windows ==
    {"open_window", "open_empty_window", "open_existing_window",
     "send_to_focused", "send_to_all", "get_focused_window",
     "get_last_active_window"}

\* Property names the modification attempts use: a method name and a new name.
PropertyNames == {"open_window", "extra"}

-----------------------------------------------------------------------------
(* Objects: own properties with their attributes, and the extensible flag. *)

\* new Windows(): the constructor body is empty, so the instance has no own
\* property.
NewWindows == [own |-> <<>>, extensible |-> TRUE]

\* Object.freeze(o): no property can be added, and every own property
\* becomes non-writable and non-configurable.
FreezeSkipped(o) == o

Freeze(o) ==
    [own |-> [n \in DOMAIN o.own |->
                [o.own[n] EXCEPT !.writable = FALSE, !.configurable = FALSE]],
     extensible |-> FALSE]

\* Property lookup o[name]: an own property wins, else the prototype's method.
Lookup(o, name) ==
    IF name \in DOMAIN o.own THEN o.own[name].value
    ELSE IF name \in Windows THEN "native"
    ELSE "undefined"

\* o[name] = value: [[Set]] of an ordinary object whose prototype holds
\* writable data properties only.  TRUE when the assignment took effect.
CanSet(o, name) ==
    IF name \in DOMAIN o.own THEN o.own[name].writable ELSE o.extensible

SetResult(o, name, value) ==
    IF ~CanSet(o, name) THEN o
    ELSE IF name \in DOMAIN o.own
    THEN [o EXCEPT !.own[name].value = value]
    ELSE [o EXCEPT !.own =
             [n \in DOMAIN o.own \cup {name} |->
                 IF n = name
                 THEN [value |-> value, writable |-> TRUE, configurable |-> TRUE]
                 ELSE o.own[n]]]

\* delete o[name]: succeeds when there is no such own property, or when the
\* own property is configurable.
CanDelete(o, name) ==
    name \notin DOMAIN o.own \/ o.own[name].configurable

DeleteResult(o, name) ==
    IF name \in DOMAIN o.own /\ o.own[name].configurable
    THEN [o EXCEPT !.own = [n \in DOMAIN o.own \ {name} |-> o.own[n]]]
    ELSE o

\* A failed [[Set]] or [[Delete]] throws in strict code and is ignored in
\* sloppy code.
Outcome(ok, strict) ==
    IF ok THEN "ok" ELSE IF strict THEN "TypeError" ELSE "ignored"

-----------------------------------------------------------------------------
(* The remote-invocation primitive and the promises it returns.            *)

Pending == [state |-> "pending", value |-> JSUndefined]

\* The handle of the promise the next invoke returns.
NewHandle == Len(promises) + 1

\* invoke(cmd, args): sends one command and returns a new pending promise.
\* argc is the number of arguments the call site passes (1: cmd alone).
invoke(cmd, argc, args) ==
    /\ invoked' = Append(invoked,
                         [cmd |-> cmd, argc |-> argc, args |-> args,
                          caller |-> Len(calls) + 1])
    /\ promises' = Append(promises, Pending)

\* The method returns promise h to the caller of operation op(in).
Return(op, in, h) ==
    calls' = Append(calls, [op |-> op, in |-> in, ret |-> h])

\* What the caller observes of the value call c returned: the methods return
\* the primitive's promise itself, with no then/catch in between.
ReturnedSwallowing(c) ==
    IF promises[c.ret].state = "rejected"
    THEN [state |-> "fulfilled", value |-> JSNull]
    ELSE promises[c.ret]

ReturnedDetached(c) ==
    IF promises[c.ret].state = "pending"
    THEN [state |-> "fulfilled", value |-> JSNull]
    ELSE promises[c.ret]

Returned(c) == promises[c.ret]

-----------------------------------------------------------------------------
(* class Windows: the seven methods.                                       *)

\* invoke(cmd, configuration): the configuration itself as the argument record.
open_window_unwrapped(configuration) ==
    /\ invoke("plugin:windows|open_window", 2, configuration)
    /\ Return("open_window", <<configuration>>, NewHandle)

open_window(configuration) ==
    /\ invoke("plugin:windows|open_window", 2,
              [configuration |-> configuration])
    /\ Return("open_window", <<configuration>>, NewHandle)

\* invoke(cmd, {...configuration, ...options}): later keys win.
open_empty_window_merged(configuration, options) ==
    /\ invoke("plugin:windows|open_empty_window", 2, options @@ configuration)
    /\ Return("open_empty_window", <<configuration, options>>, NewHandle)

open_empty_window(configuration, options) ==
    /\ invoke("plugin:windows|open_empty_window", 2,
              [configuration |-> configuration, options |-> options])
    /\ Return("open_empty_window", <<configuration, options>>, NewHandle)

\* The key spelt as the field of WindowOptions is.
open_existing_window_snake(configuration, windowToUse) ==
    /\ invoke("plugin:windows|open_existing_window", 2,
              [configuration |-> configuration, window_to_use |-> windowToUse])
    /\ Return("open_existing_window", <<configuration, windowToUse>>, NewHandle)

open_existing_window(configuration, windowToUse) ==
    /\ invoke("plugin:windows|open_existing_window", 2,
              [configuration |-> configuration, windowToUse |-> windowToUse])
    /\ Return("open_existing_window", <<configuration, windowToUse>>, NewHandle)

send_to_focused(channel, payload) ==
    /\ invoke("plugin:windows|send_to_focused", 2,
              [channel |-> channel, payload |-> payload])
    /\ Return("send_to_focused", <<channel, payload>>, NewHandle)

\* payload || {}: a falsy payload replaced by an empty record.
send_to_all_defaulting(channel, payload) ==
    /\ invoke("plugin:windows|send_to_all", 2,
              [channel |-> channel,
               payload |-> IF payload = JSNull THEN JSObject(<<>>) ELSE payload])
    /\ Return("send_to_all", <<channel, payload>>, NewHandle)

send_to_all(channel, payload) ==
    /\ invoke("plugin:windows|send_to_all", 2,
              [channel |-> channel, payload |-> payload])
    /\ Return("send_to_all", <<channel, payload>>, NewHandle)

get_focused_window ==
    /\ invoke("plugin:windows|get_focused_window", 1, JSUndefined)
    /\ Return("get_focused_window", <<>>, NewHandle)

\* invoke(cmd, {}): an empty argument record passed along.
get_last_active_window_with_args ==
    /\ invoke("plugin:windows|get_last_active_window", 2, JSObject(<<>>))
    /\ Return("get_last_active_window", <<>>, NewHandle)

get_last_active_window ==
    /\ invoke("plugin:windows|get_last_active_window", 1, JSUndefined)
    /\ Return("get_last_active_window", <<>>, NewHandle)

-----------------------------------------------------------------------------
(* Callers: WindowsService.op(...) looks the method up on the object.      *)

\* A function a caller managed to store on the object runs instead of the
\* method: it issues no command of the plugin and returns no promise of it.
Overridden(op, in) ==
    /\ Return(op, in, 0)
    /\ UNCHANGED <<invoked, promises>>

CallMethodSerial(op, in, body) ==
    /\ Len(calls) < MaxCalls
    /\ \A h \in 1..Len(promises) : promises[h].state # "pending"
    /\ IF Lookup(WindowsService, op) = "native" THEN body ELSE Overridden(op, in)
    /\ UNCHANGED WindowsService

CallMethod(op, in, body) ==
    /\ Len(calls) < MaxCalls
    /\ IF Lookup(WindowsService, op) = "native" THEN body ELSE Overridden(op, in)
    /\ UNCHANGED WindowsService

CallOpenWindow ==
    \E configuration \in OpenConfigurations :
        CallMethod("open_window", <<configuration>>, open_window(configuration))

CallOpenEmptyWindow ==
    \E configuration \in OpenConfigurations, options \in WindowOptionsValues :
        CallMethod("open_empty_window", <<configuration, options>>,
                   open_empty_window(configuration, options))

CallOpenExistingWindow ==
    \E configuration \in OpenConfigurations, windowToUse \in WindowLabels :
        CallMethod("open_existing_window", <<configuration, windowToUse>>,
                   open_existing_window(configuration, windowToUse))

CallSendToFocused ==
    \E m \in Messages :
        CallMethod("send_to_focused", m, send_to_focused(m[1], m[2]))

CallSendToAll ==
    \E m \in Messages :
        CallMethod("send_to_all", m, send_to_all(m[1], m[2]))

CallGetFocusedWindow ==
    CallMethod("get_focused_window", <<>>, get_focused_window)

CallGetLastActiveWindow ==
    CallMethod("get_last_active_window", <<>>, get_last_active_window)

\* WindowsService[name] = f, by any holder of the exported reference.
AssignProperty ==
    \E name \in PropertyNames, strict \in BOOLEAN :
        /\ Len(calls) < MaxCalls
        /\ WindowsService' = SetResult(WindowsService, name, "replaced")
        /\ calls' = Append(calls,
              [op |-> "assign", name |-> name,
               outcome |-> Outcome(CanSet(WindowsService, name), strict)])
        /\ UNCHANGED <<invoked, promises>>

\* delete WindowsService[name]
DeleteProperty ==
    \E name \in PropertyNames, strict \in BOOLEAN :
        /\ Len(calls) < MaxCalls
        /\ WindowsService' = DeleteResult(WindowsService, name)
        /\ calls' = Append(calls,
              [op |-> "delete", name |-> name,
               outcome |-> Outcome(CanDelete(WindowsService, name), strict)])
        /\ UNCHANGED <<invoked, promises>>

-----------------------------------------------------------------------------
(* The host: settles each pending promise at most once, in any order.      *)

VoidCommands ==
    {"plugin:windows|open_window", "plugin:windows|open_empty_window",
     "plugin:windows|open_existing_window", "plugin:windows|send_to_focused",
     "plugin:windows|send_to_all"}

\* The host's reply to a command: no value, or a window identifier.
Reply(cmd, label) == IF cmd \in VoidCommands THEN JSNull ELSE JSString(label)

\* Promise h settles.  The methods attach no handler to the promise they
\* return, so the client does nothing when it settles: no further command
\* is sent and the object is untouched.
SettleRetrying(h, state, value) ==
    /\ promises' =
          IF state = "rejected"
          THEN Append([promises EXCEPT ![h] = [state |-> state, value |-> value]],
                      Pending)
          ELSE [promises EXCEPT ![h] = [state |-> state, value |-> value]]
    /\ invoked' =
          IF state = "rejected" THEN Append(invoked, invoked[h]) ELSE invoked
    /\ UNCHANGED <<WindowsService, calls>>

Settle(h, state, value) ==
    /\ promises' = [promises EXCEPT ![h] = [state |-> state, value |-> value]]
    /\ UNCHANGED <<WindowsService, calls, invoked>>

\* A promise settles at most once.
Resolve(h, label) ==
    /\ promises[h].state = "pending"
    /\ Settle(h, "fulfilled", Reply(invoked[h].cmd, label))

\* Every rejection carries an error object of its own (ref).
Reject(h, message) ==
    /\ promises[h].state = "pending"
    /\ Settle(h, "rejected", [ref |-> h, message |-> message])

HostResolve ==
    \E h \in 1..Len(promises), label \in WindowLabels : Resolve(h, label)

HostReject ==
    \E h \in 1..Len(promises), message \in ErrorMessages : Reject(h, message)

-----------------------------------------------------------------------------

\* Module initialisation: const WindowsService = new Windows();
\* Object.freeze(WindowsService).
Init ==
    /\ WindowsService = Freeze(NewWindows)
    /\ calls = <<>>
    /\ invoked = <<>>
    /\ promises = <<>>

Next ==
    \/ CallOpenWindow
    \/ CallOpenEmptyWindow
    \/ CallOpenExistingWindow
    \/ CallSendToFocused
    \/ CallSendToAll
    \/ CallGetFocusedWindow
    \/ CallGetLastActiveWindow
    \/ AssignProperty
    \/ DeleteProperty
    \/ HostResolve
    \/ HostReject

Spec == Init /\ [][Next]_vars

-----------------------------------------------------------------------------
(* Vocabulary of the properties.                                           *)

\* The operation calls among the steps of the callers.
OpCalls == { i \in 1..Len(calls) : calls[i].op \in Windows }

\* The remote calls issued on behalf of step i.
RemoteCallsOf(i) == { j \in 1..Len(invoked) : invoked[j].caller = i }

\* The command table of the plugin.
PluginCommand(op) ==
    CASE op = "open_window" -> "plugin:windows|open_window"
      [] op = "open_empty_window" -> "plugin:windows|open_empty_window"
      [] op = "open_existing_window" -> "plugin:windows|open_existing_window"
      [] op = "send_to_focused" -> "plugin:windows|send_to_focused"
      [] op = "send_to_all" -> "plugin:windows|send_to_all"
      [] op = "get_focused_window" -> "plugin:windows|get_focused_window"
      [] op = "get_last_active_window" -> "plugin:windows|get_last_active_window"

\* The argument record the command table gives for op(in); none for the getters.
ExpectedArgs(op, in) ==
    CASE op = "open_window" -> [configuration |-> in[1]]
      [] op = "open_empty_window" -> [configuration |-> in[1], options |-> in[2]]
      [] op = "open_existing_window" ->
             [configuration |-> in[1], windowToUse |-> in[2]]
      [] op \in {"send_to_focused", "send_to_all"} ->
             [channel |-> in[1], payload |-> in[2]]
      [] OTHER -> JSUndefined

IsRejected(i) == Returned(calls[i]).state = "rejected"
IsFulfilled(i) == Returned(calls[i]).state = "fulfilled"
IsPending(i) == Returned(calls[i]).state = "pending"

-----------------------------------------------------------------------------
(* Properties.                                                             *)

\* C1: every call open_window(c) issues exactly one remote call; its command
\* is plugin:windows|open_window and its argument record has the single key
\* configuration, bound to c.
OpenWindowIssuesOneCall ==
    \A i \in OpCalls :
        calls[i].op = "open_window" =>
            \E j \in 1..Len(invoked) :
                /\ RemoteCallsOf(i) = {j}
                /\ invoked[j].cmd = "plugin:windows|open_window"
                /\ invoked[j].argc = 2
                /\ DOMAIN invoked[j].args = {"configuration"}
                /\ invoked[j].args.configuration = calls[i].in[1]

OpenWindowIssued ==
    \E i \in OpCalls, k \in OpCalls :
        /\ i # k
        /\ calls[i].op = "open_window" /\ calls[k].op = "open_window"
        /\ calls[i].in[1].label = JSNull
        /\ calls[k].in[1].label = JSString("main")

\* C2: when the promise the primitive returned for a call rejects with error
\* e, the promise the operation returned is rejected with that same e.
RejectionPropagates ==
    \A j \in 1..Len(invoked) :
        promises[j].state = "rejected" =>
            /\ invoked[j].caller \in OpCalls
            /\ Returned(calls[invoked[j].caller]) =
                   [state |-> "rejected", value |-> promises[j].value]

TwoOperationsRejected ==
    \E i \in OpCalls, k \in OpCalls :
        /\ calls[i].op = "open_empty_window" /\ promises[calls[i].ret].state = "rejected"
        /\ calls[k].op = "get_last_active_window"
        /\ promises[calls[k].ret].state = "rejected"

\* C3: send_to_focused(ch, p) and send_to_all(ch, p) issue their own command
\* with the record {channel: ch, payload: p}, p unchanged whatever its value,
\* and return the primitive's promise, so that they reject nothing themselves.
SendForwardsPayload ==
    \A i \in OpCalls :
        calls[i].op \in {"send_to_focused", "send_to_all"} =>
            \E j \in 1..Len(invoked) :
                /\ RemoteCallsOf(i) = {j}
                /\ calls[i].ret = j
                /\ invoked[j].cmd =
                       (IF calls[i].op = "send_to_focused"
                        THEN "plugin:windows|send_to_focused"
                        ELSE "plugin:windows|send_to_all")
                /\ invoked[j].argc = 2
                /\ DOMAIN invoked[j].args = {"channel", "payload"}
                /\ invoked[j].args.channel = calls[i].in[1]
                /\ invoked[j].args.payload = calls[i].in[2]

NullAndNestedPayloadsSent ==
    \E i \in OpCalls, k \in OpCalls :
        /\ calls[i].op = "send_to_all" /\ calls[i].in[2] = JSNull
        /\ calls[k].op = "send_to_focused" /\ calls[k].in[2].t = "object"
        /\ IsPending(i) /\ IsPending(k)

\* C4: open_existing_window(c, w) issues plugin:windows|open_existing_window
\* with c under configuration and w under windowToUse, and under no other key.
ExistingWindowUnderWindowToUse ==
    \A i \in OpCalls :
        calls[i].op = "open_existing_window" =>
            \E j \in 1..Len(invoked) :
                /\ RemoteCallsOf(i) = {j}
                /\ invoked[j].cmd = "plugin:windows|open_existing_window"
                /\ invoked[j].argc = 2
                /\ DOMAIN invoked[j].args = {"configuration", "windowToUse"}
                /\ invoked[j].args.configuration = calls[i].in[1]
                /\ invoked[j].args.windowToUse = calls[i].in[2]

ExistingWindowOpened ==
    \E i \in OpCalls :
        /\ calls[i].op = "open_existing_window"
        /\ calls[i].in[2] = "editor-1"
        /\ calls[i].in[1].label = JSString("main")

\* C5: open_empty_window(c, o) issues plugin:windows|open_empty_window with
\* exactly the keys configuration (c) and options (o): no field of one is
\* merged into the other or into the record.
EmptyWindowKeepsTwoArguments ==
    \A i \in OpCalls :
        calls[i].op = "open_empty_window" =>
            \E j \in 1..Len(invoked) :
                /\ RemoteCallsOf(i) = {j}
                /\ invoked[j].cmd = "plugin:windows|open_empty_window"
                /\ invoked[j].argc = 2
                /\ DOMAIN invoked[j].args = {"configuration", "options"}
                /\ invoked[j].args.configuration = calls[i].in[1]
                /\ invoked[j].args.options = calls[i].in[2]

EmptyWindowWithClashingFlags ==
    \E i \in OpCalls :
        /\ calls[i].op = "open_empty_window"
        /\ calls[i].in[1].force_new_window # calls[i].in[2].force_new_window
        /\ calls[i].in[1].label # calls[i].in[2].label

\* C6: the two getters issue their command with no argument record, and a
\* promise of theirs that is fulfilled holds a string.
GettersTakeNoArgumentsAndYieldStrings ==
    \A i \in OpCalls :
        calls[i].op \in {"get_focused_window", "get_last_active_window"} =>
            \E j \in 1..Len(invoked) :
                /\ RemoteCallsOf(i) = {j}
                /\ invoked[j].cmd =
                       (IF calls[i].op = "get_focused_window"
                        THEN "plugin:windows|get_focused_window"
                        ELSE "plugin:windows|get_last_active_window")
                /\ invoked[j].argc = 1
                /\ IsFulfilled(i) => Returned(calls[i]).value.t = "string"

BothGettersAnswered ==
    \E i \in OpCalls, k \in OpCalls :
        /\ calls[i].op = "get_focused_window" /\ IsFulfilled(i)
        /\ Returned(calls[i]).value = JSString("editor-1")
        /\ calls[k].op = "get_last_active_window" /\ IsFulfilled(k)

\* C7: the exported object never changes, whatever assignments, additions
\* and deletions are attempted on it, and every operation call, also one made
\* after such an attempt, issues the command and argument record of the
\* command table.
FrozenServiceKeepsBehaviour ==
    /\ DOMAIN WindowsService.own = {}
    /\ ~WindowsService.extensible
    /\ \A i \in OpCalls :
          \E j \in 1..Len(invoked) :
              /\ RemoteCallsOf(i) = {j}
              /\ calls[i].ret = j
              /\ invoked[j].cmd = PluginCommand(calls[i].op)
              /\ invoked[j].args = ExpectedArgs(calls[i].op, calls[i].in)

CallAfterRefusedAssignment ==
    \E i \in 1..Len(calls), k \in OpCalls :
        /\ i < k
        /\ calls[i].op = "assign" /\ calls[i].name = "open_window"
        /\ calls[i].outcome = "TypeError"
        /\ calls[k].op = "open_window"

\* C8: each call's promise is the promise of its own remote call and settles
\* with the host's answer to that remote call; calls do not share promises;
\* and pending calls keep no operation from being called and no pending
\* promise from being settled.
CallsAreIndependent ==
    /\ \A i \in OpCalls :
          \E j \in 1..Len(invoked) :
              /\ RemoteCallsOf(i) = {j}
              /\ Returned(calls[i]) = promises[j]
              /\ IsRejected(i) => Returned(calls[i]).value.ref = j
              /\ IsFulfilled(i) =>
                     \E label \in WindowLabels :
                         Returned(calls[i]).value = Reply(invoked[j].cmd, label)
    /\ \A i \in OpCalls, k \in OpCalls : i # k => calls[i].ret # calls[k].ret
    /\ Len(calls) < MaxCalls =>
          /\ ENABLED CallOpenWindow
          /\ ENABLED CallOpenEmptyWindow
          /\ ENABLED CallOpenExistingWindow
          /\ ENABLED CallSendToFocused
          /\ ENABLED CallSendToAll
          /\ ENABLED CallGetFocusedWindow
          /\ ENABLED CallGetLastActiveWindow
    /\ \A h \in 1..Len(promises) :
          promises[h].state = "pending" =>
              /\ ENABLED Resolve(h, "main")
              /\ ENABLED Reject(h, "no such window")

SettledOutOfOrder ==
    \E i \in OpCalls, k \in OpCalls :
        /\ i < k
        /\ calls[i].op = calls[k].op
        /\ IsPending(i)
        /\ IsRejected(k)

\* C9: an operation call causes exactly one remote call in total, also once
\* that remote call has failed, and the caller's promise holds the one error
\* of that remote call.
NoRetryAfterFailure ==
    /\ \A i \in OpCalls : Cardinality(RemoteCallsOf(i)) = 1
    /\ Len(invoked) = Cardinality(OpCalls)
    /\ \A i \in OpCalls :
          IsRejected(i) => Returned(calls[i]).value.ref \in RemoteCallsOf(i)

FailureThenFurtherCall ==
    \E i \in OpCalls, k \in OpCalls :
        /\ i < k
        /\ IsRejected(i)
        /\ IsFulfilled(k)

\* C10: a promise an operation returned is pending as long as the host has
\* not settled its remote call, and a promise that is fulfilled or rejected
\* stays as it is in every later step.
PromiseSettlesOnceAndOnlyByHost ==
    [][\A i \in OpCalls :
          /\ promises[calls[i].ret].state = "pending" => IsPending(i)
          /\ promises'[calls[i].ret].state = "pending" => IsPending(i)'
          /\ ~IsPending(i) => Returned(calls[i])' = Returned(calls[i])]_vars

OneSettledOnePending ==
    \E i \in OpCalls, k \in OpCalls :
        /\ IsFulfilled(i)
        /\ IsPending(k)
        /\ Len(calls) = MaxCalls

====
